---- MODULE Spec2Model ----
(***************************************************************************)
(* The OSC command codec of src/main.rs (pad, encode_string,               *)
(* decode_string, Command::encode/decode, Argument::encode/decode/tag)     *)
(* and the meter scaling step of main's receive loop.                      *)
(*                                                                         *)
(* A byte is a number in 0..255, a buffer (Vec<u8>, &[u8]) a sequence of   *)
(* bytes, a &str the sequence of its UTF-8 bytes.  Rust indices are        *)
(* 0-based; a 0-based index k is element k + 1 of the sequence.  A panic   *)
(* is the value of the field err (or the variable failure), named by the   *)
(* panic's message.                                                        *)
(***************************************************************************)
EXTENDS Integers, Sequences, FiniteSets, TLC

VARIABLES
    pc,               \* position of the program
    cmd,              \* the Command being encoded (self of Command::encode)
    buf,              \* the Vec<u8> that encode / encode_string / pad write to
    arg_offsets,      \* history: buf.len() at the start of each pass of the loop at lines 82-85
    datagram,         \* the &[u8] handed to Command::decode / decode_string
    rest,             \* the remaining slice (the rebinding of buf in the decoders)
    address_pattern,  \* decoded address pattern (line 90) / decoded string
    type_tags,        \* the type tags after the leading ',' (line 94)
    arguments,        \* the Vec<Argument> built by the loop at lines 97-101
    cursors,          \* history: offset of rest into datagram before the first argument and after each
    failure,          \* "none", or the message of the panic that ended the call
    failure_char,     \* the character carried by the "unknown type tag" panic, else -1
    s_in,             \* input string of the primitive under test
    t_in,             \* bytes that follow the encoded string in the buffer under test
    b_in,             \* buffer handed to pad, as it was before the call
    build,            \* "debug" (overflow checks on) or "release" (wrapping arithmetic)
    channel1,         \* the i16 read at line 222
    sum,              \* i16::MAX + channel1 as the build computes it
    width             \* the usize of line 224

vars == <<pc, cmd, buf, arg_offsets, datagram, rest, address_pattern, type_tags,
          arguments, cursors, failure, failure_char, s_in, t_in, b_in, build,
          channel1, sum, width>>

codecVars == <<cmd, buf, arg_offsets, datagram, rest, address_pattern, type_tags,
               arguments, cursors, failure_char>>
primVars == <<s_in, t_in, b_in>>
meterVars == <<build, channel1, sum, width>>

(***************************************************************************)
(* Bounds of the model.                                                    *)
(***************************************************************************)
MaxStrLen == 2      \* longest generated string (the requests of main are added as they are)
MaxBinLen == 2      \* longest generated Binary payload
MaxArgs == 2        \* most arguments of a generated Command
MaxTags == 2        \* most type tags of a generated datagram
MaxPayload == 5     \* most argument bytes of a generated datagram
MaxPadLen == 5      \* longest buffer handed to pad alone
MaxTail == 2        \* most bytes that follow an encoded string

(***************************************************************************)
(* Program constants.                                                      *)
(***************************************************************************)
NUL == 0
COMMA == 44
TAG_s == 115
TAG_i == 105
TAG_f == 102
TAG_b == 98
ALIGN == 4
I16_MAX == 32767
SCALE == 256
ASTERISKS == 1024

Pow8 == 256
Pow16 == 65536
Pow24 == 16777216

(***************************************************************************)
(* Sequences of bytes.                                                     *)
(***************************************************************************)
RECURSIVE Strs(_, _)
Strs(alphabet, n) ==
    IF n = 0 THEN {<<>>}
    ELSE LET shorter == Strs(alphabet, n - 1)
         IN  shorter \cup {Append(x, c) : x \in {y \in shorter : Len(y) = n - 1}, c \in alphabet}

\* &buf[from..] for a 0-based from <= buf.len()
SliceFrom(b, from) == SubSeq(b, from + 1, Len(b))
\* &buf[..to] for a 0-based to <= buf.len()
SliceTo(b, to) == SubSeq(b, 1, to)

Zeros(n) == [k \in 1..n |-> NUL]

(***************************************************************************)
(* pad (lines 28-34).                                                      *)
(***************************************************************************)
pad_always(b) ==
    LET m == Len(b) % ALIGN IN b \o Zeros(ALIGN - m)

pad_never(b) == b

pad(b) ==
    LET m == Len(b) % ALIGN
    IN  IF m # 0 THEN b \o SliceTo(Zeros(3), ALIGN - m) ELSE b

(***************************************************************************)
(* encode_string (lines 37-41).                                            *)
(***************************************************************************)
encode_string(s, b) == pad(Append(b \o s, NUL))

(***************************************************************************)
(* str::from_utf8 (line 46) and str::chars (line 97): UTF-8 as the         *)
(* standard library validates and decodes it.                              *)
(***************************************************************************)
IsCont(b, k) == k <= Len(b) /\ b[k] >= 128 /\ b[k] <= 191

\* number of bytes of the first character of b, 0 when b does not begin with one
Utf8Width(b) ==
    LET c == b[1] IN
    IF c < 128 THEN 1
    ELSE IF c >= 194 /\ c <= 223 THEN (IF IsCont(b, 2) THEN 2 ELSE 0)
    ELSE IF c >= 224 /\ c <= 239 THEN
        (IF /\ IsCont(b, 2) /\ IsCont(b, 3)
            /\ (c = 224 => b[2] >= 160)
            /\ (c = 237 => b[2] <= 159)
         THEN 3 ELSE 0)
    ELSE IF c >= 240 /\ c <= 244 THEN
        (IF /\ IsCont(b, 2) /\ IsCont(b, 3) /\ IsCont(b, 4)
            /\ (c = 240 => b[2] >= 144)
            /\ (c = 244 => b[2] <= 143)
         THEN 4 ELSE 0)
    ELSE 0

RECURSIVE from_utf8_ok(_)
from_utf8_ok(b) ==
    IF b = <<>> THEN TRUE
    ELSE LET n == Utf8Width(b) IN n > 0 /\ from_utf8_ok(SliceFrom(b, n))

\* the scalar value of the first character of the valid UTF-8 b
FirstChar(b) ==
    LET n == Utf8Width(b) IN
    IF n = 1 THEN b[1]
    ELSE IF n = 2 THEN (b[1] % 32) * 64 + (b[2] % 64)
    ELSE IF n = 3 THEN (b[1] % 16) * 4096 + (b[2] % 64) * 64 + (b[3] % 64)
    ELSE (b[1] % 8) * 262144 + (b[2] % 64) * 4096 + (b[3] % 64) * 64 + (b[4] % 64)

RECURSIVE chars(_)
chars(b) ==
    IF b = <<>> THEN <<>>
    ELSE <<FirstChar(b)>> \o chars(SliceFrom(b, Utf8Width(b)))

(***************************************************************************)
(* decode_string (lines 44-57).                                            *)
(***************************************************************************)
\* buf.iter().position(|&x| x == 0): the 0-based index of the first NUL, -1 for None
position_nul(b) ==
    IF \E k \in 1..Len(b) : b[k] = NUL
    THEN (CHOOSE k \in 1..Len(b) : b[k] = NUL /\ \A j \in 1..(k - 1) : b[j] # NUL) - 1
    ELSE -1

StrResult(e, s, r) == [err |-> e, s |-> s, rest |-> r]

decode_string(b) ==
    LET idx == position_nul(b) IN
    IF idx = -1 THEN StrResult("no null terminator", <<>>, <<>>)
    ELSE IF ~from_utf8_ok(SliceTo(b, idx)) THEN StrResult("not valid UTF-8", <<>>, <<>>)
    ELSE LET m == idx % ALIGN
             from == IF m = 0 THEN idx ELSE idx + ALIGN - m
         IN  IF from > Len(b) THEN StrResult("slice index out of range", <<>>, <<>>)
             ELSE StrResult("none", SliceTo(b, idx), SliceFrom(b, from))

(***************************************************************************)
(* Argument (lines 111-116).  Every variant is a record of one shape:      *)
(* String(s) and Binary(b) keep their bytes in .bytes, Integer(i) keeps i  *)
(* in .n, and Float(f) keeps in .n the bit pattern f.to_bits() read as a   *)
(* two's complement 32-bit number (0.5 is 1056964608).                     *)
(***************************************************************************)
ArgString(s) == [variant |-> "String", n |-> 0, bytes |-> s]
ArgInteger(i) == [variant |-> "Integer", n |-> i, bytes |-> <<>>]
ArgFloat(bits) == [variant |-> "Float", n |-> bits, bytes |-> <<>>]
ArgBinary(b) == [variant |-> "Binary", n |-> 0, bytes |-> b]

NewCommand(a, args) == [address_pattern |-> a, arguments |-> args]

(***************************************************************************)
(* byteorder's BigEndian (lines 127-130, 144-147) on 32-bit values.        *)
(***************************************************************************)
\* the 4 bytes of the 32-bit pattern of i, least significant first
write_32_little(b, i) ==
    b \o <<i % Pow8, (i \div Pow8) % Pow8, (i \div Pow16) % Pow8, (i \div Pow24) % Pow8>>

\* write_i32::<BigEndian>, write_f32::<BigEndian> of the bit pattern, write_u32::<BigEndian>
write_32(b, i) ==
    b \o <<(i \div Pow24) % Pow8, (i \div Pow16) % Pow8, (i \div Pow8) % Pow8, i % Pow8>>

\* BigEndian::read_i32 and the bit pattern of BigEndian::read_f32, on a slice of 4 bytes
read_i32(b) ==
    (IF b[1] >= 128 THEN b[1] - Pow8 ELSE b[1]) * Pow24 + b[2] * Pow16 + b[3] * Pow8 + b[4]

(***************************************************************************)
(* Argument::tag (lines 155-162).                                          *)
(***************************************************************************)
tag_swapped(a) ==
    CASE a.variant = "String" -> TAG_s
      [] a.variant = "Integer" -> TAG_f
      [] a.variant = "Float" -> TAG_i
      [] a.variant = "Binary" -> TAG_b

tag(a) ==
    CASE a.variant = "String" -> TAG_s
      [] a.variant = "Integer" -> TAG_i
      [] a.variant = "Float" -> TAG_f
      [] a.variant = "Binary" -> TAG_b

(***************************************************************************)
(* Argument::encode (lines 121-134).                                       *)
(***************************************************************************)
argument_encode_little(a, b) ==
    CASE a.variant = "String" -> Append(b \o a.bytes, NUL)
      [] a.variant = "Integer" -> write_32_little(b, a.n)
      [] a.variant = "Float" -> write_32_little(b, a.n)
      [] a.variant = "Binary" -> write_32_little(b, Len(a.bytes)) \o a.bytes

argument_encode(a, b) ==
    CASE a.variant = "String" -> Append(b \o a.bytes, NUL)
      [] a.variant = "Integer" -> write_32(b, a.n)
      [] a.variant = "Float" -> write_32(b, a.n)
      [] a.variant = "Binary" -> write_32(b, Len(a.bytes)) \o a.bytes

(***************************************************************************)
(* Argument::decode (lines 138-152).  b is shorter than 2^31 bytes, so a   *)
(* length prefix of 2^31 or more (first byte >= 128) is out of range.      *)
(***************************************************************************)
ArgResult(e, c, a, r) == [err |-> e, char |-> c, a |-> a, rest |-> r]
NoArg == ArgInteger(0)

argument_decode_lenient(type_tag, b) ==
    IF type_tag = TAG_s THEN
        LET r == decode_string(b) IN
        IF r.err # "none" THEN ArgResult(r.err, -1, NoArg, <<>>)
        ELSE ArgResult("none", -1, ArgString(r.s), r.rest)
    ELSE IF type_tag = TAG_f THEN
        IF Len(b) < 4 THEN ArgResult("slice index out of range", -1, NoArg, <<>>)
        ELSE ArgResult("none", -1, ArgFloat(read_i32(SliceTo(b, 4))), SliceFrom(b, 4))
    ELSE IF type_tag = TAG_b THEN
        IF Len(b) < 4 \/ b[1] >= 128 THEN ArgResult("slice index out of range", -1, NoArg, <<>>)
        ELSE LET len == read_i32(SliceTo(b, 4)) IN
             IF len > Len(b) - 4 THEN ArgResult("slice index out of range", -1, NoArg, <<>>)
             ELSE ArgResult("none", -1, ArgBinary(SliceTo(SliceFrom(b, 4), len)),
                            SliceFrom(b, 4 + len))
    ELSE
        IF Len(b) < 4 THEN ArgResult("slice index out of range", -1, NoArg, <<>>)
        ELSE ArgResult("none", -1, ArgInteger(read_i32(SliceTo(b, 4))), SliceFrom(b, 4))

argument_decode(type_tag, b) ==
    IF type_tag = TAG_s THEN
        LET r == decode_string(b) IN
        IF r.err # "none" THEN ArgResult(r.err, -1, NoArg, <<>>)
        ELSE ArgResult("none", -1, ArgString(r.s), r.rest)
    ELSE IF type_tag = TAG_i THEN
        IF Len(b) < 4 THEN ArgResult("slice index out of range", -1, NoArg, <<>>)
        ELSE ArgResult("none", -1, ArgInteger(read_i32(SliceTo(b, 4))), SliceFrom(b, 4))
    ELSE IF type_tag = TAG_f THEN
        IF Len(b) < 4 THEN ArgResult("slice index out of range", -1, NoArg, <<>>)
        ELSE ArgResult("none", -1, ArgFloat(read_i32(SliceTo(b, 4))), SliceFrom(b, 4))
    ELSE IF type_tag = TAG_b THEN
        IF Len(b) < 4 \/ b[1] >= 128 THEN ArgResult("slice index out of range", -1, NoArg, <<>>)
        ELSE LET len == read_i32(SliceTo(b, 4)) IN
             IF len > Len(b) - 4 THEN ArgResult("slice index out of range", -1, NoArg, <<>>)
             ELSE ArgResult("none", -1, ArgBinary(SliceTo(SliceFrom(b, 4), len)),
                            SliceFrom(b, 4 + len))
    ELSE ArgResult("unknown type tag", type_tag, NoArg, <<>>)

(***************************************************************************)
(* The values the model draws from.                                        *)
(***************************************************************************)
\* "/info", "/ch/01/mix/fader", "/meters", "/meters/1" (lines 173, 189, 200, 201)
InfoAddr == <<47, 105, 110, 102, 111>>
FaderAddr == <<47, 99, 104, 47, 48, 49, 47, 109, 105, 120, 47, 102, 97, 100, 101, 114>>
MetersAddr == <<47, 109, 101, 116, 101, 114, 115>>
MetersArg == <<47, 109, 101, 116, 101, 114, 115, 47, 49>>

InfoRequest == NewCommand(InfoAddr, <<>>)

StrChars == {47, 97}
Addresses == Strs({47}, MaxStrLen) \cup {InfoAddr, FaderAddr, MetersAddr}
ArgStrings == Strs({97}, MaxStrLen) \cup {MetersArg}
ArgIntegers == {-2147483647 - 1, -1, 1}
\* the bit patterns of 0.0 and 0.5
ArgFloats == {0, 1056964608}
ArgBinaries == Strs({7}, MaxBinLen) \cup {<<1, 2, 3, 4>>}

ArgValues ==
    {ArgString(s) : s \in ArgStrings} \cup {ArgInteger(i) : i \in ArgIntegers}
    \cup {ArgFloat(f) : f \in ArgFloats} \cup {ArgBinary(b) : b \in ArgBinaries}

Commands == {NewCommand(a, args) : a \in Addresses, args \in Strs(ArgValues, MaxArgs)}

\* what the socket may deliver: an address field, a type tag field and argument
\* bytes, each well formed or not
TagChars == {TAG_s, TAG_i, TAG_f, TAG_b, 120}
AddrFields ==
    {encode_string(s, <<>>) : s \in {<<>>, <<97>>, <<47, 97, 47, 97>>}}
    \cup {<<>>, <<97>>, <<97, 98, 0>>, <<255, 0, 0, 0>>}
TagFields ==
    {encode_string(<<COMMA>> \o g, <<>>) : g \in Strs(TagChars, MaxTags)}
    \cup {<<COMMA, TAG_i>>, encode_string(<<TAG_i>>, <<>>),
          encode_string(<<COMMA, 195, 169>>, <<>>), encode_string(<<195, 169>>, <<>>)}
Payloads == Strs({0, 1}, MaxPayload)
Datagrams == {a \o g \o p : a \in AddrFields, g \in TagFields, p \in Payloads}

(***************************************************************************)
(* Command::encode (lines 69-86), one action per statement group.          *)
(***************************************************************************)
decodeVars == <<datagram, rest, address_pattern, type_tags, arguments, cursors,
                failure, failure_char>>

tags_of(args) == [k \in 1..Len(args) |-> tag(args[k])]

\* line 71
EncodeAddress ==
    /\ pc = "encode_address"
    /\ buf' = encode_string(cmd.address_pattern, buf)
    /\ pc' = "encode_tags"
    /\ UNCHANGED <<cmd, arg_offsets, decodeVars, primVars, meterVars>>

\* lines 74-79
EncodeTags ==
    /\ pc = "encode_tags"
    /\ buf' = pad(Append(Append(buf, COMMA) \o tags_of(cmd.arguments), NUL))
    /\ pc' = "encode_args"
    /\ UNCHANGED <<cmd, arg_offsets, decodeVars, primVars, meterVars>>

\* lines 82-85, one pass of the loop
EncodeArgument ==
    /\ pc = "encode_args"
    /\ Len(arg_offsets) < Len(cmd.arguments)
    /\ arg_offsets' = Append(arg_offsets, Len(buf))
    /\ buf' = pad(argument_encode(cmd.arguments[Len(arg_offsets) + 1], buf))
    /\ UNCHANGED <<pc, cmd, decodeVars, primVars, meterVars>>

\* the encoded buffer comes back unchanged and is handed to Command::decode
Loopback ==
    /\ pc = "encode_args"
    /\ Len(arg_offsets) = Len(cmd.arguments)
    /\ datagram' = buf
    /\ rest' = buf
    /\ pc' = "decode_address"
    /\ UNCHANGED <<cmd, buf, arg_offsets, address_pattern, type_tags, arguments, cursors,
                   failure, failure_char, primVars, meterVars>>

\* lines 179-184: the "/info" request is sent and the socket delivers a response
Recv ==
    /\ pc = "encode_args"
    /\ Len(arg_offsets) = Len(cmd.arguments)
    /\ cmd = InfoRequest
    /\ \E d \in Datagrams :
        /\ datagram' = d
        /\ rest' = d
    /\ pc' = "decode_address"
    /\ UNCHANGED <<cmd, buf, arg_offsets, address_pattern, type_tags, arguments, cursors,
                   failure, failure_char, primVars, meterVars>>

(***************************************************************************)
(* Command::decode (lines 89-106), one action per statement group.         *)
(***************************************************************************)
Panic(msg, c) ==
    /\ failure' = msg
    /\ failure_char' = c
    /\ pc' = "panicked"

\* line 90
DecodeAddress ==
    /\ pc = "decode_address"
    /\ LET r == decode_string(rest) IN
        IF r.err # "none"
        THEN /\ Panic(r.err, -1)
             /\ UNCHANGED <<address_pattern, rest>>
        ELSE /\ address_pattern' = r.s
             /\ rest' = r.rest
             /\ pc' = "decode_tags"
             /\ UNCHANGED <<failure, failure_char>>
    /\ UNCHANGED <<cmd, buf, arg_offsets, datagram, type_tags, arguments, cursors,
                   primVars, meterVars>>

\* the panic of lines 92-93, "none" when they pass
tags_error(r) ==
    IF r.err # "none" THEN r.err
    ELSE IF Len(r.s) < 1 THEN "slice index out of range"
    ELSE IF r.s[1] >= 128 THEN "not a char boundary"
    ELSE IF r.s[1] # COMMA THEN "assertion failed"
    ELSE "none"

\* lines 92-96
DecodeTags ==
    /\ pc = "decode_tags"
    /\ LET r == decode_string(rest)
           e == tags_error(r)
       IN
        IF e # "none"
        THEN /\ Panic(e, -1)
             /\ UNCHANGED <<type_tags, rest, cursors>>
        ELSE /\ type_tags' = SliceFrom(r.s, 1)
             /\ rest' = r.rest
             /\ cursors' = <<Len(datagram) - Len(r.rest)>>
             /\ pc' = "decode_args"
             /\ UNCHANGED <<failure, failure_char>>
    /\ UNCHANGED <<cmd, buf, arg_offsets, datagram, address_pattern, arguments,
                   primVars, meterVars>>

\* lines 97-101, one pass of the loop
DecodeArgument ==
    /\ pc = "decode_args"
    /\ Len(arguments) < Len(chars(type_tags))
    /\ LET type_tag == chars(type_tags)[Len(arguments) + 1]
           r == argument_decode(type_tag, rest)
       IN
        IF r.err # "none"
        THEN /\ Panic(r.err, r.char)
             /\ UNCHANGED <<arguments, rest, cursors>>
        ELSE /\ arguments' = Append(arguments, r.a)
             /\ rest' = r.rest
             /\ cursors' = Append(cursors, Len(datagram) - Len(r.rest))
             /\ UNCHANGED <<pc, failure, failure_char>>
    /\ UNCHANGED <<cmd, buf, arg_offsets, datagram, address_pattern, type_tags,
                   primVars, meterVars>>

\* lines 102-105
DecodeReturn ==
    /\ pc = "decode_args"
    /\ Len(arguments) = Len(chars(type_tags))
    /\ pc' = "returned"
    /\ UNCHANGED <<codecVars, failure, primVars, meterVars>>

Init ==
    /\ pc = "encode_address"
    /\ cmd \in Commands
    /\ buf = <<>>
    /\ arg_offsets = <<>>
    /\ datagram = <<>>
    /\ rest = <<>>
    /\ address_pattern = <<>>
    /\ type_tags = <<>>
    /\ arguments = <<>>
    /\ cursors = <<>>
    /\ failure = "none"
    /\ failure_char = -1
    /\ s_in = <<>>
    /\ t_in = <<>>
    /\ b_in = <<>>
    /\ build = "debug"
    /\ channel1 = 0
    /\ sum = 0
    /\ width = 0

Next ==
    \/ EncodeAddress
    \/ EncodeTags
    \/ EncodeArgument
    \/ Loopback
    \/ Recv
    \/ DecodeAddress
    \/ DecodeTags
    \/ DecodeArgument
    \/ DecodeReturn

Spec == Init /\ [][Next]_vars

(***************************************************************************)
(* The primitives alone: pad on any buffer, and decode_string on the       *)
(* bytes encode_string wrote, followed by any bytes.                       *)
(***************************************************************************)
PadBuffers == Strs({0, 7}, MaxPadLen)
PrimStrings == Strs(StrChars, MaxStrLen) \cup {InfoAddr, FaderAddr, MetersAddr, MetersArg}
Tails == Strs({0, COMMA}, MaxTail)

InitPrim ==
    /\ \/ /\ pc = "pad"
          /\ b_in \in PadBuffers
          /\ s_in = <<>>
          /\ t_in = <<>>
       \/ /\ pc = "encode_string"
          /\ b_in = <<>>
          /\ s_in \in PrimStrings
          /\ t_in \in Tails
    /\ buf = b_in
    /\ cmd = InfoRequest
    /\ arg_offsets = <<>>
    /\ datagram = <<>>
    /\ rest = <<>>
    /\ address_pattern = <<>>
    /\ type_tags = <<>>
    /\ arguments = <<>>
    /\ cursors = <<>>
    /\ failure = "none"
    /\ failure_char = -1
    /\ build = "debug"
    /\ channel1 = 0
    /\ sum = 0
    /\ width = 0

\* pad(&mut buf)
Pad ==
    /\ pc = "pad"
    /\ buf' = pad(buf)
    /\ pc' = "padded"
    /\ UNCHANGED <<cmd, arg_offsets, decodeVars, primVars, meterVars>>

\* pad(&mut buf) again
PadAgain ==
    /\ pc = "padded"
    /\ buf' = pad(buf)
    /\ pc' = "padded_twice"
    /\ UNCHANGED <<cmd, arg_offsets, decodeVars, primVars, meterVars>>

\* encode_string(s, &mut buf) on the empty buffer
EncodeString ==
    /\ pc = "encode_string"
    /\ buf' = encode_string(s_in, buf)
    /\ pc' = "decode_string"
    /\ UNCHANGED <<cmd, arg_offsets, decodeVars, primVars, meterVars>>

\* decode_string on what encode_string wrote, followed by t_in
DecodeString ==
    /\ pc = "decode_string"
    /\ datagram' = buf \o t_in
    /\ LET r == decode_string(buf \o t_in) IN
        /\ failure' = r.err
        /\ address_pattern' = r.s
        /\ rest' = r.rest
    /\ pc' = "string_decoded"
    /\ UNCHANGED <<cmd, buf, arg_offsets, type_tags, arguments, cursors, failure_char,
                   primVars, meterVars>>

NextPrim ==
    \/ Pad
    \/ PadAgain
    \/ EncodeString
    \/ DecodeString

SpecPrim == InitPrim /\ [][NextPrim]_vars

(***************************************************************************)
(* The scaling step of main's receive loop (lines 222-225).                *)
(***************************************************************************)
\* LittleEndian::read_i16 (line 222)
read_i16_little(b) ==
    LET u == b[1] + b[2] * Pow8 IN IF u > I16_MAX THEN u - Pow16 ELSE u

\* i16::MAX + channel1 in i16 (line 224): a panic with overflow checks, else wrapped
add_i16(a, b) ==
    LET exact == a + b IN
    IF exact > I16_MAX THEN [overflow |-> TRUE, value |-> exact - Pow16]
    ELSE IF exact < -I16_MAX - 1 THEN [overflow |-> TRUE, value |-> exact + Pow16]
    ELSE [overflow |-> FALSE, value |-> exact]

\* (x as f64) as usize: exact for every i16, negative values saturate to 0
as_usize(x) == IF x < 0 THEN 0 ELSE x

InitMeter ==
    /\ pc = "read_channel"
    /\ datagram \in {<<lo, hi>> : lo \in 0..(Pow8 - 1), hi \in 0..(Pow8 - 1)}
    /\ build \in {"debug", "release"}
    /\ channel1 = 0
    /\ sum = 0
    /\ width = 0
    /\ buf = <<>>
    /\ cmd = InfoRequest
    /\ arg_offsets = <<>>
    /\ rest = <<>>
    /\ address_pattern = <<>>
    /\ type_tags = <<>>
    /\ arguments = <<>>
    /\ cursors = <<>>
    /\ failure = "none"
    /\ failure_char = -1
    /\ s_in = <<>>
    /\ t_in = <<>>
    /\ b_in = <<>>

\* line 222
ReadChannel ==
    /\ pc = "read_channel"
    /\ channel1' = read_i16_little(datagram)
    /\ pc' = "scale"
    /\ UNCHANGED <<codecVars, failure, primVars, build, sum, width>>

\* line 224
Scale ==
    /\ pc = "scale"
    /\ LET r == add_i16(I16_MAX, channel1) IN
        IF r.overflow /\ build = "debug"
        THEN /\ failure' = "attempt to add with overflow"
             /\ pc' = "panicked"
             /\ UNCHANGED <<sum, width>>
        ELSE /\ sum' = r.value
             /\ width' = as_usize(r.value) \div SCALE
             /\ pc' = "print"
             /\ UNCHANGED failure
    /\ UNCHANGED <<codecVars, primVars, build, channel1>>

\* line 225: &asterisks[..width]
PrintBar ==
    /\ pc = "print"
    /\ IF width > ASTERISKS
       THEN /\ failure' = "slice index out of range"
            /\ pc' = "panicked"
       ELSE /\ pc' = "printed"
            /\ UNCHANGED failure
    /\ UNCHANGED <<codecVars, primVars, meterVars>>

NextMeter ==
    \/ ReadChannel
    \/ Scale
    \/ PrintBar

SpecMeter == InitMeter /\ [][NextMeter]_vars

(***************************************************************************)
(* The properties.                                                         *)
(***************************************************************************)
Terminal == pc \in {"returned", "panicked"}
\* the decoder runs on the very bytes Command::encode wrote
LoopedBack == datagram = buf /\ pc \in {"decode_address", "decode_tags", "decode_args",
                                        "returned", "panicked"}
\* number of zero bytes that bring a length of n to the next multiple of 4
PadLen(n) == (4 - (n % 4)) % 4
AllZero(b, from, to) == \A k \in from..to : b[k] = 0
\* the 32-bit two's complement number that 4 bytes spell, most significant first
Spelled(w) == (w[1] - (IF w[1] >= 128 THEN 256 ELSE 0)) * 16777216
              + w[2] * 65536 + w[3] * 256 + w[4]
TagNamed(variant) ==
    CASE variant = "String" -> 115 [] variant = "Integer" -> 105
      [] variant = "Float" -> 102 [] variant = "Binary" -> 98
VariantNamed(c) ==
    CASE c = 115 -> "String" [] c = 105 -> "Integer" [] c = 102 -> "Float"
      [] c = 98 -> "Binary" [] OTHER -> "no variant"
KnownTag(c) == c \in {115, 105, 102, 98}

\* C1: Command::decode of the buffer Command::encode wrote returns, without
\* failing, a Command with the same address pattern and the same arguments in
\* the same order.
C1_RoundTrip ==
    (LoopedBack /\ Terminal) =>
        /\ pc = "returned"
        /\ failure = "none"
        /\ address_pattern = cmd.address_pattern
        /\ arguments = cmd.arguments

\* C2: decode_string applied to the bytes encode_string(s) wrote into an empty
\* buffer, followed by t, returns exactly (s, t): it consumes the terminator
\* and the padding and nothing else.
C2_DecodeStringConsumesField ==
    pc = "string_decoded" =>
        /\ failure = "none"
        /\ address_pattern = s_in
        /\ rest = t_in

\* C3: the buffer length is a multiple of 4 after the address field, after the
\* type tag block, after each argument's padding step and when encode returns.
C3_EncodeAligned ==
    /\ pc # "encode_address" => Len(buf) % 4 = 0
    /\ \A k \in 1..Len(arg_offsets) : arg_offsets[k] % 4 = 0

C3_Witness ==
    /\ pc = "decode_address"
    /\ Len(cmd.address_pattern) % 4 = 0
    /\ Len(cmd.arguments) = 2
    /\ cmd.arguments[1].variant = "Binary" /\ Len(cmd.arguments[1].bytes) = 1
    /\ cmd.arguments[2].variant = "String" /\ Len(cmd.arguments[2].bytes) = 2
    /\ Len(buf) > 0

\* C4: a Command that Command::decode returns has exactly one argument per
\* character of the type tag string after its ',', the k-th of the variant the
\* k-th character names; and Command::encode writes ',' and then exactly one
\* tag byte per argument, in argument order, by the same mapping.
C4_TagCorrespondence ==
    /\ pc = "returned" =>
        /\ Len(arguments) = Len(chars(type_tags))
        /\ \A k \in 1..Len(arguments) :
            arguments[k].variant = VariantNamed(chars(type_tags)[k])
    /\ pc \notin {"encode_address", "encode_tags"} =>
        LET at == Len(cmd.address_pattern) + 1 + PadLen(Len(cmd.address_pattern) + 1)
            n == Len(cmd.arguments)
        IN  /\ Len(buf) >= at + n + 2
            /\ buf[at + 1] = 44
            /\ \A k \in 1..n : buf[at + 1 + k] = TagNamed(cmd.arguments[k].variant)
            /\ buf[at + n + 2] = 0

C4_Witness ==
    /\ pc = "returned"
    /\ datagram # buf
    /\ Len(arguments) = 2
    /\ arguments[1].variant = "Binary"
    /\ arguments[2].variant = "String"

FirstUnknown(tagchars) ==
    CHOOSE u \in 1..Len(tagchars) :
        ~KnownTag(tagchars[u]) /\ \A j \in 1..(u - 1) : KnownTag(tagchars[j])
HasUnknown(tagchars) == \E u \in 1..Len(tagchars) : ~KnownTag(tagchars[u])

NoNul(b) == \A k \in 1..Len(b) : b[k] # 0
\* the length of a complete address field: bytes, terminator, padding
AddressFieldLen(b) == LET idx == position_nul(b) IN idx + 1 + PadLen(idx + 1)

\* C6: for a buffer with no 0x00 byte Command::decode fails with 'no null
\* terminator' and returns nothing, and so it does when the (valid, complete)
\* address field is followed by bytes among which there is no 0x00.
C6_MissingTerminatorMalformed ==
    Terminal =>
        /\ NoNul(datagram) => (pc = "panicked" /\ failure = "no null terminator")
        /\ ( /\ ~NoNul(datagram)
             /\ from_utf8_ok(SliceTo(datagram, position_nul(datagram)))
             /\ AddressFieldLen(datagram) <= Len(datagram)
             /\ NoNul(SliceFrom(datagram, AddressFieldLen(datagram))) )
           => (pc = "panicked" /\ failure = "no null terminator")

RECURSIVE ArgsLaidOut(_, _, _)
\* from offset off on, b holds exactly the arguments args, each padded to 4
ArgsLaidOut(b, args, off) ==
    IF args = <<>> THEN off = Len(b)
    ELSE LET a == Head(args)
             n == CASE a.variant = "String" -> Len(a.bytes) + 1
                    [] a.variant = "Binary" -> 4 + Len(a.bytes)
                    [] OTHER -> 4
             raw == SubSeq(b, off + 1, off + n)
         IN  /\ off + n + PadLen(n) <= Len(b)
             /\ CASE a.variant = "String" -> raw = a.bytes \o <<0>>
                  [] a.variant = "Binary" ->
                        /\ Spelled(SubSeq(raw, 1, 4)) = Len(a.bytes)
                        /\ SubSeq(raw, 5, n) = a.bytes
                  [] OTHER -> Spelled(raw) = a.n
             /\ AllZero(b, off + n + 1, off + n + PadLen(n))
             /\ ArgsLaidOut(b, Tail(args), off + n + PadLen(n))

\* C7: Command::encode writes the address bytes, a NUL and zero padding to a
\* multiple of 4, then ',' with one tag byte per argument, a NUL and zero
\* padding, then each argument's encoding padded with zeros to a multiple of
\* 4; "/info" without arguments becomes 2F 69 6E 66 6F 00 00 00 2C 00 00 00.
C7_WireLayout ==
    (pc \notin {"encode_address", "encode_tags"} /\ Len(arg_offsets) = Len(cmd.arguments)) =>
        LET a == cmd.address_pattern
            n == Len(cmd.arguments)
            at == Len(a) + 1 + PadLen(Len(a) + 1)
            args_at == at + n + 2 + PadLen(n + 2)
        IN  /\ Len(buf) >= args_at
            /\ SubSeq(buf, 1, Len(a)) = a
            /\ AllZero(buf, Len(a) + 1, at)
            /\ buf[at + 1] = 44
            /\ \A k \in 1..n : buf[at + 1 + k] = TagNamed(cmd.arguments[k].variant)
            /\ AllZero(buf, at + n + 2, args_at)
            /\ ArgsLaidOut(buf, cmd.arguments, args_at)
            /\ (a = <<47, 105, 110, 102, 111>> /\ n = 0) =>
                buf = <<47, 105, 110, 102, 111, 0, 0, 0, 44, 0, 0, 0>>

C7_Witness ==
    /\ pc = "decode_address"
    /\ Len(cmd.arguments) = 2
    /\ cmd.arguments[1] = ArgInteger(-1)
    /\ cmd.arguments[2] = ArgBinary(<<7>>)
    /\ Len(buf) = Len(cmd.address_pattern) + 1 + PadLen(Len(cmd.address_pattern) + 1) + 16

\* C8: after pad the length is the smallest multiple of 4 that is >= the
\* length before (0 bytes added when aligned, never 4), every appended byte is
\* 0x00 and the bytes before are unchanged; a second pad changes nothing.
C8_PadSmallestMultiple ==
    pc \in {"padded", "padded_twice"} =>
        /\ Len(buf) % 4 = 0
        /\ Len(buf) >= Len(b_in)
        /\ Len(buf) < Len(b_in) + 4
        /\ SubSeq(buf, 1, Len(b_in)) = b_in
        /\ AllZero(buf, Len(b_in) + 1, Len(buf))

C8_Witness ==
    /\ pc = "padded_twice"
    /\ Len(b_in) = 4
    /\ buf = b_in

\* C9: while Command::decode processes a buffer Command::encode produced,
\* after each decoded argument the cursor is a multiple of 4 past the start of
\* the argument, at the offset where encode began writing the next argument.
C9_DecodeCursorFollowsEncode ==
    (LoopedBack /\ pc \in {"decode_args", "returned"}) =>
        \A k \in 2..Len(cursors) :
            /\ (cursors[k] - cursors[k - 1]) % 4 = 0
            /\ cursors[k] = (IF k <= Len(arg_offsets) THEN arg_offsets[k] ELSE Len(buf))

\* C10: for every channel-1 sample i16::MAX + channel1 stays within the 16-bit
\* signed range, the width lies in 0..=127 and the scaling step does not fail.
C10_MeterWidthInRange ==
    pc \in {"print", "printed", "panicked"} =>
        /\ failure = "none"
        /\ sum = 32767 + channel1
        /\ sum <= 32767
        /\ width \in 0..127

====
